---- MODULE Spec2Model ----
(***************************************************************************)
(* Model of lib/libvarnish/vsa.c: struct suckaddr, a fixed-size container  *)
(* for socket addresses, its constructors, accessors, comparators and the  *)
(* getsockname/getpeername wrappers.                                       *)
(*                                                                         *)
(* Storage is modelled byte for byte.  The layout is the one of Linux on a *)
(* little-endian machine (no sa_len member): sa_family_t is two bytes in   *)
(* host order, ports and addresses are in network order.                   *)
(***************************************************************************)
EXTENDS Integers, Sequences, FiniteSets, TLC

VARIABLES mem, allocated, errno, aborted, call

vars == <<mem, allocated, errno, aborted, call>>

(***************************************************************************)
(* Bounds of the model.                                                    *)
(***************************************************************************)
\* caller-supplied storage areas of vsa_suckaddr_len bytes
NBufs == 2
\* storage areas malloc/calloc can hand out
NHeap == 1
\* addresses used as inputs are AddrBytes(n, 0..MaxAddr)
MaxAddr == 1
\* ports used as inputs are PortBytes(0..MaxPort)
MaxPort == 1

(***************************************************************************)
(* Program constants: families, errno values, structure sizes and offsets. *)
(***************************************************************************)
AF_UNSPEC == 0
AF_UNIX == 1
PF_INET == 2
PF_INET6 == 10
AF_NETLINK == 16

EINVAL == 22
EAFNOSUPPORT == 97
EBADF == 9

\* unsigned magic; SUCKADDR_MAGIC 0x4b1e9335, as stored in memory
SUCKADDR_MAGIC == <<53, 147, 30, 75>>
sizeof_magic == 4

sizeof_sockaddr == 16
sizeof_sockaddr_in == 16
sizeof_sockaddr_in6 == 28
sizeof_sockaddr_un == 110
sizeof_sockaddr_nl == 12
sizeof_in_addr == 4
sizeof_in6_addr == 16
sizeof_port == 2

\* offsets inside struct sockaddr_in / sockaddr_in6
off_port == 2
off_sin_addr == 4
off_sin6_addr == 8

Max(a, b) == IF a >= b THEN a ELSE b

\* sizeof(sua->u): the union of sockaddr, sockaddr_in and sockaddr_in6
sizeof_u == Max(sizeof_sockaddr, Max(sizeof_sockaddr_in, sizeof_sockaddr_in6))

\* const size_t vsa_suckaddr_len = sizeof(struct suckaddr)
vsa_suckaddr_len == sizeof_magic + sizeof_u

(***************************************************************************)
(* Bytes and memory.                                                       *)
(***************************************************************************)
NULL == 0
Bufs == 1 .. NBufs
Heap == (NBufs + 1) .. (NBufs + NHeap)
Slots == 1 .. (NBufs + NHeap)

\* n bytes b
RECURSIVE Fill(_, _)
Fill(n, b) == IF n = 0 THEN <<>> ELSE Append(Fill(n - 1, b), b)
\* n zero bytes, n at most the size of the largest structure
ZeroBytes == Fill(sizeof_sockaddr_un, 0)
Zeros(n) == SubSeq(ZeroBytes, 1, n)

\* memcpy(dst + off, src, n) on a byte sequence
memcpy(dst, off, src, n) ==
    SubSeq(dst, 1, off) \o SubSeq(src, 1, n) \o SubSeq(dst, off + n + 1, Len(dst))

\* memcmp(a, b, n): difference of the first pair of bytes that differ
RECURSIVE memcmp_from(_, _, _, _)
memcmp_from(a, b, i, n) ==
    IF i > n THEN 0
    ELSE IF a[i] # b[i] THEN a[i] - b[i]
    ELSE memcmp_from(a, b, i + 1, n)

memcmp(a, b, n) == memcmp_from(a, b, 1, n)

\* contents storage can have before a constructor writes it
Junk == {Zeros(vsa_suckaddr_len), Fill(vsa_suckaddr_len, 255)}

(***************************************************************************)
(* Raw socket addresses, as the caller or the kernel lays them out.        *)
(***************************************************************************)
\* the i-th address of n bytes: 0.0.0.0, 127.0.0.1, 254.0.0.2, ...
AddrBytes(n, i) == <<(127 * i) % 256>> \o Zeros(n - 2) \o <<i>>

\* the j-th port: 0, 8080, 15904, ...
PortBytes(j) == <<(31 * j) % 256, (144 * j) % 256>>

FamBytes(fam) == <<fam % 256, fam \div 256>>

\* struct sockaddr_in with every other field zero
MkSin4(addr, port) ==
    memcpy(memcpy(memcpy(Zeros(sizeof_sockaddr_in), 0, FamBytes(PF_INET), 2),
                  off_port, port, sizeof_port),
           off_sin_addr, addr, sizeof_in_addr)

\* struct sockaddr_in6 with flowinfo and scope id zero
MkSin6(addr, port) ==
    memcpy(memcpy(memcpy(Zeros(sizeof_sockaddr_in6), 0, FamBytes(PF_INET6), 2),
                  off_port, port, sizeof_port),
           off_sin6_addr, addr, sizeof_in6_addr)

\* struct sockaddr_un for the path "/a"
MkSun == memcpy(memcpy(Zeros(sizeof_sockaddr_un), 0, FamBytes(AF_UNIX), 2), 2, <<47, 97>>, 2)

\* struct sockaddr_nl (a family this file does not know), nl_pid 7
MkSnl == memcpy(memcpy(Zeros(sizeof_sockaddr_nl), 0, FamBytes(AF_NETLINK), 2), 4, <<7>>, 1)

\* struct sockaddr with sa_family AF_UNSPEC
MkSunspec == Zeros(sizeof_sockaddr)

(***************************************************************************)
(* struct suckaddr and the functions that only read it.  A value is the    *)
(* vsa_suckaddr_len bytes of one storage area; a pointer to a value is the *)
(* number of the area, NULL is 0.                                          *)
(***************************************************************************)
\* the bytes of member magic
magic(v) == SubSeq(v, 1, sizeof_magic)

\* the bytes of member u
u(v) == SubSeq(v, sizeof_magic + 1, vsa_suckaddr_len)

\* sa->sa_family (also sin_family and sin6_family: the same two bytes)
sa_family(sa) == sa[1] + 256 * sa[2]

\* INIT_OBJ(sua, SUCKADDR_MAGIC): memset to zero, then set the magic
INIT_OBJ_nozero(v) == memcpy(v, 0, SUCKADDR_MAGIC, sizeof_magic)

INIT_OBJ(v) == memcpy(Zeros(vsa_suckaddr_len), 0, SUCKADDR_MAGIC, sizeof_magic)

\* VALID_OBJ(sua, SUCKADDR_MAGIC)
VALID_OBJ(m, sua) == sua # NULL /\ magic(m[sua]) = SUCKADDR_MAGIC

sua_len(sa) ==
    CASE sa_family(sa) = PF_INET -> sizeof_sockaddr_in
      [] sa_family(sa) = PF_INET6 -> sizeof_sockaddr_in6
      [] sa_family(sa) = AF_UNIX -> sizeof_sockaddr_un
      [] OTHER -> 0

\* ntohs of two bytes in network order
ntohs_noswap(b) == b[1] + 256 * b[2]

ntohs(b) == 256 * b[1] + b[2]

\* pointers into a storage area: <<area, offset>>
NullPtr == <<0, 0>>
UnsetPtr == <<-1, -1>>
Deref(m, ptr, n) == SubSeq(m[ptr[1]], ptr[2] + 1, ptr[2] + n)

\* result of a function that may fail an assertion
Ret(rv) == [abort |-> FALSE, rv |-> rv, dst |-> UnsetPtr]
Abort == [abort |-> TRUE, rv |-> 0, dst |-> UnsetPtr]

VSA_GetPtr_wrong(m, sua, dst) ==
    IF sua = NULL THEN [Ret(-1) EXCEPT !.dst = dst]
    ELSE IF ~VALID_OBJ(m, sua) THEN Abort
    ELSE CASE sa_family(u(m[sua])) = PF_INET ->
                [Ret(PF_INET) EXCEPT !.dst = <<sua, sizeof_magic + off_sin_addr>>]
           [] sa_family(u(m[sua])) = PF_INET6 ->
                [Ret(PF_INET6) EXCEPT !.dst = <<sua, sizeof_magic + off_sin6_addr>>]
           [] OTHER -> Abort

VSA_GetPtr(m, sua, dst) ==
    IF sua = NULL THEN [Ret(-1) EXCEPT !.dst = dst]
    ELSE IF ~VALID_OBJ(m, sua) THEN Abort
    ELSE CASE sa_family(u(m[sua])) = PF_INET ->
                [Ret(sa_family(u(m[sua]))) EXCEPT !.dst = <<sua, sizeof_magic + off_sin_addr>>]
           [] sa_family(u(m[sua])) = PF_INET6 ->
                [Ret(sa_family(u(m[sua]))) EXCEPT !.dst = <<sua, sizeof_magic + off_sin6_addr>>]
           [] OTHER -> [Ret(-1) EXCEPT !.dst = NullPtr]

\* returns the view as <<area, offset>> in dst and *slp in rv
VSA_Get_Sockaddr(m, sua) ==
    IF ~VALID_OBJ(m, sua) THEN Abort
    ELSE IF sua_len(u(m[sua])) = 0 THEN [Ret(0) EXCEPT !.dst = NullPtr]
    ELSE [Ret(sua_len(u(m[sua]))) EXCEPT !.dst = <<sua, sizeof_magic>>]

VSA_Get_Proto(m, sua) ==
    IF ~VALID_OBJ(m, sua) THEN Abort ELSE Ret(sa_family(u(m[sua])))

VSA_Sane(m, sua) == VALID_OBJ(m, sua) /\ sua_len(u(m[sua])) # 0

VSA_Compare(m, sua1, sua2) ==
    IF ~VALID_OBJ(m, sua1) \/ ~VALID_OBJ(m, sua2) THEN Abort
    ELSE Ret(memcmp(m[sua1], m[sua2], vsa_suckaddr_len))

sin_addr(v) == SubSeq(u(v), off_sin_addr + 1, off_sin_addr + sizeof_in_addr)
sin6_addr(v) == SubSeq(u(v), off_sin6_addr + 1, off_sin6_addr + sizeof_in6_addr)
sin_port(v) == SubSeq(u(v), off_port + 1, off_port + sizeof_port)

VSA_Compare_IP_port(m, sua1, sua2) ==
    IF ~VSA_Sane(m, sua1) \/ ~VSA_Sane(m, sua2) THEN Abort
    ELSE IF sa_family(u(m[sua1])) # sa_family(u(m[sua2])) THEN Ret(-1)
    ELSE CASE sa_family(u(m[sua1])) = PF_INET ->
                Ret(memcmp(sin_port(m[sua1]) \o sin_addr(m[sua1]),
                           sin_port(m[sua2]) \o sin_addr(m[sua2]),
                           sizeof_port + sizeof_in_addr))
           [] sa_family(u(m[sua1])) = PF_INET6 ->
                Ret(memcmp(sin_port(m[sua1]) \o sin6_addr(m[sua1]),
                           sin_port(m[sua2]) \o sin6_addr(m[sua2]),
                           sizeof_port + sizeof_in6_addr))
           [] OTHER -> Abort

VSA_Compare_IP(m, sua1, sua2) ==
    IF ~VSA_Sane(m, sua1) \/ ~VSA_Sane(m, sua2) THEN Abort
    ELSE IF sa_family(u(m[sua1])) # sa_family(u(m[sua2])) THEN Ret(-1)
    ELSE CASE sa_family(u(m[sua1])) = PF_INET ->
                Ret(memcmp(sin_addr(m[sua1]), sin_addr(m[sua2]), sizeof_in_addr))
           [] sa_family(u(m[sua1])) = PF_INET6 ->
                Ret(memcmp(sin6_addr(m[sua1]), sin6_addr(m[sua2]), sizeof_in6_addr))
           [] OTHER -> Abort

VSA_Port(m, sua) ==
    IF ~VALID_OBJ(m, sua) THEN Abort
    ELSE CASE sa_family(u(m[sua])) = PF_INET -> Ret(ntohs(sin_port(m[sua])))
           [] sa_family(u(m[sua])) = PF_INET6 -> Ret(ntohs(sin_port(m[sua])))
           [] OTHER -> Ret(0)

(***************************************************************************)
(* Constructors, as functions of the memory.  Each returns the memory it   *)
(* leaves, the pointer it returns, the value it stores in errno (0: errno  *)
(* is not written) and whether an assertion failed.                        *)
(***************************************************************************)
Done(m, ret, e) == [mem |-> m, ret |-> ret, errno |-> e, abort |-> FALSE]
Fail(m) == [mem |-> m, ret |-> NULL, errno |-> 0, abort |-> TRUE]

\* VSA_Build(d, s, sal); s is the caller's structure, never NULL here
VSA_Build(m, d, s, sal) ==
    IF d = NULL THEN Fail(m)
    ELSE IF sua_len(s) = 0 \/ sua_len(s) # sal THEN Done(m, NULL, 0)
    ELSE IF sua_len(s) = sizeof_sockaddr_in \/ sua_len(s) = sizeof_sockaddr_in6
         THEN Done([m EXCEPT ![d] = memcpy(INIT_OBJ(m[d]), sizeof_magic, s, sua_len(s))], d, 0)
    ELSE Fail([m EXCEPT ![d] = INIT_OBJ(m[d])])

\* an argument of VSA_BuildFAP: a pointer (NULL or a buffer) and a length
NullArg(len) == [isnull |-> TRUE, buf |-> <<>>, len |-> len]
Arg(buf, len) == [isnull |-> FALSE, buf |-> buf, len |-> len]

\* a != NULL && al > 0
ArgGiven_nonnull(x) == ~x.isnull

ArgGiven(x) == ~x.isnull /\ x.len > 0

\* the local sin4 / sin6 of VSA_BuildFAP after the copies
FAP_sin4(a, p) ==
    LET s0 == memcpy(Zeros(sizeof_sockaddr_in), 0, FamBytes(PF_INET), 2)
        s1 == IF ArgGiven(a) THEN memcpy(s0, off_sin_addr, a.buf, a.len) ELSE s0
    IN  IF ArgGiven(p) THEN memcpy(s1, off_port, p.buf, p.len) ELSE s1

FAP_sin6(a, p) ==
    LET s0 == memcpy(Zeros(sizeof_sockaddr_in6), 0, FamBytes(PF_INET6), 2)
        s1 == IF ArgGiven(a) THEN memcpy(s0, off_sin6_addr, a.buf, a.len) ELSE s0
    IN  IF ArgGiven(p) THEN memcpy(s1, off_port, p.buf, p.len) ELSE s1

VSA_BuildFAP(m, d, fam, a, p) ==
    CASE fam = PF_INET ->
            IF ArgGiven(a) /\ a.len # sizeof_in_addr THEN Done(m, NULL, EINVAL)
            ELSE IF ArgGiven(p) /\ p.len # sizeof_port THEN Done(m, NULL, EINVAL)
            ELSE VSA_Build(m, d, FAP_sin4(a, p), sizeof_sockaddr_in)
      [] fam = PF_INET6 ->
            IF ArgGiven(a) /\ a.len # sizeof_in6_addr THEN Done(m, NULL, EINVAL)
            ELSE IF ArgGiven(p) /\ p.len # sizeof_port THEN Done(m, NULL, EINVAL)
            ELSE VSA_Build(m, d, FAP_sin6(a, p), sizeof_sockaddr_in6)
      [] OTHER -> Done(m, NULL, EAFNOSUPPORT)

\* memcpy(sua2, sua, vsa_suckaddr_len) of VSA_Clone
Clone_copy_short(dst, src) == memcpy(dst, 0, src, sizeof_magic + sizeof_sockaddr)

Clone_copy(dst, src) == memcpy(dst, 0, src, vsa_suckaddr_len)

\* VSA_Clone(sua); sua2 is what calloc returned (NULL or a zeroed area)
VSA_Clone(m, sua, sua2) ==
    IF ~VSA_Sane(m, sua) THEN Fail(m)
    ELSE IF sua2 = NULL THEN Fail(m)
    ELSE Done([m EXCEPT ![sua2] = Clone_copy(Zeros(vsa_suckaddr_len), m[sua])], sua2, 0)

(***************************************************************************)
(* The state: the storage areas, which heap areas are allocated, errno,    *)
(* whether an assertion has failed (the process is gone), and the call     *)
(* that was made last, with its arguments and results.                     *)
(***************************************************************************)
NoCall ==
    [op |-> "none", d |-> NULL, fam |-> 0, a |-> NullArg(0), p |-> NullArg(0),
     s |-> <<>>, sal |-> 0, sua |-> NULL, sua2 |-> NULL, ret |-> NULL, rv |-> 0,
     dst |-> UnsetPtr, which |-> "", fd |-> 0, l |-> 0, pc |-> "done", sl |-> 0,
     ncalls |-> 0, r |-> 0]

Init ==
    /\ mem \in [Slots -> Junk]
    /\ \A h \in Heap : mem[h] = Zeros(vsa_suckaddr_len)
    /\ allocated = {}
    /\ errno = 0
    /\ aborted = FALSE
    /\ call = NoCall

Ready == ~aborted /\ call.pc = "done"

\* storage a caller can pass as a value
Values == Bufs \cup allocated

\* the effect of a constructor's result r, recorded as call c
Apply(r, c) ==
    /\ mem' = r.mem
    /\ errno' = IF r.errno # 0 THEN r.errno ELSE errno
    /\ aborted' = r.abort
    /\ call' = [c EXCEPT !.ret = r.ret]

\* the effect of a reading function's result r, recorded as call c
Read(r, c) ==
    /\ aborted' = r.abort
    /\ call' = [c EXCEPT !.rv = r.rv, !.dst = r.dst]
    /\ UNCHANGED <<mem, allocated, errno>>

(***************************************************************************)
(* Calls of the constructors.  D is the set of destinations the caller     *)
(* passes, In the set of argument tuples.                                  *)
(***************************************************************************)
Call_VSA_Build(D, In) ==
    /\ Ready
    /\ \E d \in D, i \in In :
          Apply(VSA_Build(mem, d, i[1], i[2]),
                [NoCall EXCEPT !.op = "VSA_Build", !.d = d, !.s = i[1], !.sal = i[2]])
    /\ UNCHANGED allocated

Call_VSA_BuildFAP(D, In) ==
    /\ Ready
    /\ \E d \in D, i \in In :
          Apply(VSA_BuildFAP(mem, d, i[1], i[2], i[3]),
                [NoCall EXCEPT !.op = "VSA_BuildFAP", !.d = d, !.fam = i[1],
                               !.a = i[2], !.p = i[3]])
    /\ UNCHANGED allocated

\* malloc(vsa_suckaddr_len): NULL, or an area with any contents
Call_VSA_Malloc(In) ==
    /\ Ready
    /\ \E i \in In :
          LET c == [NoCall EXCEPT !.op = "VSA_Malloc", !.s = i[1], !.sal = i[2]]
          IN  \/ /\ Apply(VSA_Build(mem, NULL, i[1], i[2]), c)
                 /\ UNCHANGED allocated
              \/ \E h \in Heap \ allocated, j \in Junk :
                    /\ Apply(VSA_Build([mem EXCEPT ![h] = j], h, i[1], i[2]),
                             [c EXCEPT !.d = h])
                    /\ allocated' = allocated \cup {h}

\* the assertion comes first; then calloc(1, vsa_suckaddr_len): NULL, or a zeroed area
Call_VSA_Clone ==
    /\ Ready
    /\ \E sua \in Values :
          LET c == [NoCall EXCEPT !.op = "VSA_Clone", !.sua = sua]
          IN  \/ /\ Apply(VSA_Clone(mem, sua, NULL), c)
                 /\ UNCHANGED allocated
              \/ \E h \in Heap \ allocated :
                    /\ VSA_Sane(mem, sua)
                    /\ Apply(VSA_Clone([mem EXCEPT ![h] = Zeros(vsa_suckaddr_len)], sua, h), c)
                    /\ allocated' = allocated \cup {h}

(***************************************************************************)
(* VSA_getsockname / VSA_getpeername (the macro VSA_getname).  The call is *)
(* split where it enters the kernel: the first step is everything up to    *)
(* the system call, the second is the system call and the return.          *)
(***************************************************************************)
\* l != vsa_suckaddr_len is refused
getname_len_ok_atmost(l) == l <= vsa_suckaddr_len

getname_len_ok(l) == l = vsa_suckaddr_len

Min(a, b) == IF a <= b THEN a ELSE b

VSA_getname_enter(W, F, D, L) ==
    /\ Ready
    /\ \E which \in W, fd \in F, d \in D, l \in L :
          LET c == [NoCall EXCEPT !.op = "VSA_getname", !.which = which, !.fd = fd,
                                  !.d = d, !.l = l]
          IN  IF ~getname_len_ok(l)
              THEN /\ errno' = EINVAL
                   /\ call' = c
                   /\ UNCHANGED <<mem, allocated, aborted>>
              ELSE /\ mem' = [mem EXCEPT ![d] = INIT_OBJ(mem[d])]
                   /\ call' = [c EXCEPT !.pc = "syscall", !.sl = sizeof_u]
                   /\ UNCHANGED <<allocated, errno, aborted>>

\* getsockname(2) / getpeername(2): fails, or stores at most sl bytes of one of
\* the addresses Os
VSA_getname_syscall(Os) ==
    /\ ~aborted
    /\ call.pc = "syscall"
    /\ \/ /\ errno' = EBADF
          /\ call' = [call EXCEPT !.pc = "done", !.ncalls = @ + 1, !.r = -1, !.ret = NULL]
          /\ UNCHANGED <<mem, allocated, aborted>>
       \/ \E b \in Os :
             /\ call.fd # -1
             /\ mem' = [mem EXCEPT ![call.d] = memcpy(@, sizeof_magic, b, Min(call.sl, Len(b)))]
             /\ call' = [call EXCEPT !.pc = "done", !.ncalls = @ + 1, !.r = 0, !.ret = call.d]
             /\ UNCHANGED <<allocated, errno, aborted>>

(***************************************************************************)
(* Calls of the functions that only read.                                  *)
(***************************************************************************)
Call_VSA_GetPtr ==
    /\ Ready
    /\ \E sua \in Values \cup {NULL} :
          Read(VSA_GetPtr(mem, sua, UnsetPtr), [NoCall EXCEPT !.op = "VSA_GetPtr", !.sua = sua])

Call_VSA_Get_Sockaddr ==
    /\ Ready
    /\ \E sua \in Values :
          Read(VSA_Get_Sockaddr(mem, sua), [NoCall EXCEPT !.op = "VSA_Get_Sockaddr", !.sua = sua])

Call_VSA_Get_Proto ==
    /\ Ready
    /\ \E sua \in Values :
          Read(VSA_Get_Proto(mem, sua), [NoCall EXCEPT !.op = "VSA_Get_Proto", !.sua = sua])

Call_VSA_Sane ==
    /\ Ready
    /\ \E sua \in Values \cup {NULL} :
          Read(Ret(IF VSA_Sane(mem, sua) THEN 1 ELSE 0),
               [NoCall EXCEPT !.op = "VSA_Sane", !.sua = sua])

Call_VSA_Compare ==
    /\ Ready
    /\ \E sua1 \in Values, sua2 \in Values :
          Read(VSA_Compare(mem, sua1, sua2),
               [NoCall EXCEPT !.op = "VSA_Compare", !.sua = sua1, !.sua2 = sua2])

Call_VSA_Compare_IP ==
    /\ Ready
    /\ \E sua1 \in Values, sua2 \in Values :
          Read(VSA_Compare_IP(mem, sua1, sua2),
               [NoCall EXCEPT !.op = "VSA_Compare_IP", !.sua = sua1, !.sua2 = sua2])

Call_VSA_Port ==
    /\ Ready
    /\ \E sua \in Values :
          Read(VSA_Port(mem, sua), [NoCall EXCEPT !.op = "VSA_Port", !.sua = sua])

(***************************************************************************)
(* Inputs.                                                                 *)
(***************************************************************************)
Addrs(n) == {AddrBytes(n, i) : i \in 0 .. MaxAddr}
Ports == {PortBytes(j) : j \in 0 .. MaxPort}

IPFams == {PF_INET, PF_INET6}
Fams == {PF_INET, PF_INET6, AF_UNIX, AF_UNSPEC}

addr_size(fam) == IF fam = PF_INET THEN sizeof_in_addr ELSE sizeof_in6_addr

\* exact-size arguments
AddrArgsExact(fam) == {Arg(b, addr_size(fam)) : b \in Addrs(addr_size(fam))}
PortArgsExact == {Arg(b, sizeof_port) : b \in Ports}

\* arguments that are left out: NULL, or a length of 0
ArgsOmitted(n) == {NullArg(0), NullArg(n), Arg(PortBytes(1), 0)}

\* every shape of address and port argument
AddrArgs ==
    {x : x \in ArgsOmitted(sizeof_in_addr) \cup AddrArgsExact(PF_INET)
                \cup AddrArgsExact(PF_INET6)}
PortArgs ==
    {x : x \in ArgsOmitted(sizeof_port) \cup PortArgsExact \cup {Arg(PortBytes(1), 1)}}

\* <<fam, a, p>> for VSA_BuildFAP: every family with every shape of argument
FAPAll == {<<fam, a, p>> : fam \in Fams, a \in AddrArgs, p \in PortArgs}

\* an IP family with an address and a port of its sizes
FAPExact ==
    {x : x \in UNION {{<<fam, a, p>> : a \in AddrArgsExact(fam), p \in PortArgsExact} :
                      fam \in IPFams}}

\* an IP family with address and port left out
FAPZero == {<<fam, NullArg(0), NullArg(0)>> : fam \in IPFams}

\* an IP family with an address and a port of its sizes, or with both left out
FAPGood == {x : x \in FAPExact \cup FAPZero}

\* one call of each kind
FAPFew ==
    {<<PF_INET, Arg(AddrBytes(sizeof_in_addr, 1), sizeof_in_addr), Arg(PortBytes(1), sizeof_port)>>,
     <<PF_INET6, Arg(AddrBytes(sizeof_in6_addr, 1), sizeof_in6_addr), Arg(PortBytes(1), sizeof_port)>>,
     <<PF_INET, Arg(AddrBytes(sizeof_in6_addr, 1), sizeof_in6_addr), NullArg(0)>>,
     <<AF_UNIX, NullArg(0), NullArg(0)>>}

\* <<s, sal>> for VSA_Build / VSA_Malloc: structures and the lengths claimed for them
RawAddrs ==
    {x : x \in {MkSin4(a, p) : a \in Addrs(sizeof_in_addr), p \in Ports}
                \cup {MkSin6(a, p) : a \in Addrs(sizeof_in6_addr), p \in Ports}
                \cup {MkSun, MkSnl, MkSunspec}}
RawLens ==
    {sizeof_sockaddr_in - 1, sizeof_sockaddr_in, sizeof_sockaddr_in6, sizeof_sockaddr_un}
RawAll == {<<s, sal>> : s \in RawAddrs, sal \in RawLens}

\* one call of each kind
RawFew ==
    {<<MkSin4(AddrBytes(sizeof_in_addr, 1), PortBytes(1)), sizeof_sockaddr_in>>,
     <<MkSin6(AddrBytes(sizeof_in6_addr, 1), PortBytes(1)), sizeof_sockaddr_in6>>,
     <<MkSin4(AddrBytes(sizeof_in_addr, 1), PortBytes(1)), sizeof_sockaddr_in - 1>>,
     <<MkSun, sizeof_sockaddr_un>>,
     <<MkSnl, sizeof_sockaddr_nl>>}

\* addresses the kernel can report for a socket
OsAddrs ==
    {MkSin4(AddrBytes(sizeof_in_addr, 1), PortBytes(1)),
     MkSin6(AddrBytes(sizeof_in6_addr, 1), PortBytes(1)), MkSun, MkSnl}

\* the sizes callers pass to VSA_getsockname / VSA_getpeername
NameLens == {vsa_suckaddr_len, sizeof_u}

\* the two wrappers the macro VSA_getname defines
Which == {"sock", "peer"}

\* file descriptors: -1 is no descriptor, 3 is a socket
Fds == {-1, 3}

\* the fixed size alone
LenOk == {vsa_suckaddr_len}

\* getsockname on a socket
Sock == {"sock"}
Fd3 == {3}

\* a Unix-domain socket
OsUnix == {MkSun}

\* the first caller-supplied storage area, the first two
Dst1 == {1}
Dst2 == {1, 2}

(***************************************************************************)
(* The library: every function, each called with a few inputs.             *)
(***************************************************************************)
Next ==
    \/ Call_VSA_Build(Bufs, RawFew)
    \/ Call_VSA_BuildFAP(Bufs, FAPFew)
    \/ Call_VSA_Malloc(RawFew)
    \/ Call_VSA_Clone
    \/ VSA_getname_enter(Which, Fds, Bufs, NameLens)
    \/ VSA_getname_syscall(OsAddrs)
    \/ Call_VSA_GetPtr
    \/ Call_VSA_Get_Sockaddr
    \/ Call_VSA_Get_Proto
    \/ Call_VSA_Sane
    \/ Call_VSA_Compare
    \/ Call_VSA_Compare_IP
    \/ Call_VSA_Port

Spec == Init /\ [][Next]_vars

(***************************************************************************)
(* VSA_Build alone, with every structure and every claimed length.         *)
(***************************************************************************)
NextBuild == Call_VSA_Build(Bufs, RawAll)

SpecBuild == Init /\ [][NextBuild]_vars

(***************************************************************************)
(* VSA_BuildFAP into one destination with every shape of argument, and the *)
(* functions that read the result back.                                    *)
(***************************************************************************)
NextFAP ==
    \/ Call_VSA_BuildFAP(Dst1, FAPAll)
    \/ Call_VSA_Get_Proto
    \/ Call_VSA_GetPtr
    \/ Call_VSA_Port

SpecFAP == Init /\ [][NextFAP]_vars

(***************************************************************************)
(* Values built by VSA_BuildFAP into every caller area, and VSA_Compare.   *)
(***************************************************************************)
NextCmp ==
    \/ Call_VSA_BuildFAP(Bufs, FAPGood)
    \/ Call_VSA_Compare

SpecCmp == Init /\ [][NextCmp]_vars

(***************************************************************************)
(* IP values in the two areas of the operands, a Unix-domain value from    *)
(* getsockname in the first, and VSA_Compare_IP.                           *)
(***************************************************************************)
NextCmpIP ==
    \/ Call_VSA_BuildFAP(Dst2, FAPExact)
    \/ VSA_getname_enter(Sock, Fd3, Dst1, LenOk)
    \/ VSA_getname_syscall(OsUnix)
    \/ Call_VSA_Compare_IP

SpecCmpIP == Init /\ [][NextCmpIP]_vars

(***************************************************************************)
(* Values built into one area, and VSA_Clone of any value.                 *)
(***************************************************************************)
NextClone ==
    \/ Call_VSA_BuildFAP(Dst1, FAPExact)
    \/ VSA_getname_enter(Which, Fds, Dst1, LenOk)
    \/ VSA_getname_syscall(OsUnix)
    \/ Call_VSA_Clone

SpecClone == Init /\ [][NextClone]_vars

(***************************************************************************)
(* VSA_getsockname / VSA_getpeername alone.                                *)
(***************************************************************************)
NextName ==
    \/ VSA_getname_enter(Which, Fds, Bufs, NameLens)
    \/ VSA_getname_syscall(OsAddrs)

SpecName == Init /\ [][NextName]_vars

(***************************************************************************)
(* Values of every family in one area, and VSA_GetPtr.                     *)
(***************************************************************************)
NextPtr ==
    \/ Call_VSA_BuildFAP(Dst1, FAPExact)
    \/ VSA_getname_enter(Which, Fds, Dst1, LenOk)
    \/ VSA_getname_syscall(OsAddrs)
    \/ Call_VSA_GetPtr

SpecPtr == Init /\ [][NextPtr]_vars

(***************************************************************************)
(* Properties.                                                             *)
(***************************************************************************)
\* x is an argument of exactly n bytes
Exact(x, n) == ~x.isnull /\ x.len = n

\* x is a non-NULL argument with a length that is neither 0 nor n
WrongLen(x, n) == ~x.isnull /\ x.len # 0 /\ x.len # n

\* x is NULL or has length 0
Omitted(x) == x.isnull \/ x.len = 0

\* two bytes in network order as a number
HostOrder(b) == 256 * b[1] + b[2]

\* C1: round trip.  After VSA_BuildFAP with an IP family, an address of the
\* family's size and a 2-byte port, the call has returned its destination,
\* VSA_Get_Proto gives the family, VSA_GetPtr gives the family and a pointer
\* into the value to bytes equal to the address, and VSA_Port gives the port
\* in host order.
C1_RoundTrip ==
    (/\ call.op = "VSA_BuildFAP"
     /\ call.fam \in IPFams
     /\ Exact(call.a, addr_size(call.fam))
     /\ Exact(call.p, sizeof_port))
    => /\ ~aborted
       /\ call.ret = call.d
       /\ VSA_Get_Proto(mem, call.ret) = Ret(call.fam)
       /\ LET g == VSA_GetPtr(mem, call.ret, UnsetPtr)
          IN  /\ ~g.abort
              /\ g.rv = call.fam
              /\ g.dst[1] = call.ret
              /\ Deref(mem, g.dst, addr_size(call.fam)) = call.a.buf
       /\ VSA_Port(mem, call.ret) = Ret(HostOrder(call.p.buf))

C1_Witness ==
    /\ call.op = "VSA_BuildFAP"
    /\ call.fam = PF_INET6
    /\ call.a = Arg(AddrBytes(sizeof_in6_addr, 1), sizeof_in6_addr)
    /\ call.p = Arg(PortBytes(1), sizeof_port)
    /\ call.ret = call.d
    /\ VSA_Port(mem, call.ret).rv = 8080

\* C2: VSA_Build returns NULL exactly when the size looked up for the family
\* is 0 or differs from the length passed; otherwise, for every family the
\* lookup knows, it returns d, tagged and holding the bytes, and no
\* assertion fails.
C2_Build_outcome ==
    call.op = "VSA_Build"
    => /\ ~aborted
       /\ call.ret = NULL <=> (sua_len(call.s) = 0 \/ sua_len(call.s) # call.sal)
       /\ call.ret # NULL
          => /\ call.ret = call.d
             /\ VALID_OBJ(mem, call.d)
             /\ SubSeq(u(mem[call.d]), 1, call.sal) = call.s

\* C2 for the families that fit the union: the same, for IPv4 and IPv6 and
\* the families the lookup does not know.
C2_Build_outcome_IP ==
    (call.op = "VSA_Build" /\ sa_family(call.s) # AF_UNIX) => C2_Build_outcome

Constructors == {"VSA_Build", "VSA_BuildFAP", "VSA_Malloc", "VSA_Clone", "VSA_getname"}

\* C3: every non-NULL value a constructor returns is VSA_Sane, and storage
\* that is all zero bytes is never VSA_Sane.
C3_Constructed_is_Sane ==
    /\ (call.op \in Constructors /\ call.pc = "done" /\ ~aborted /\ call.ret # NULL)
       => VSA_Sane(mem, call.ret)
    /\ \A s \in Slots : mem[s] = Zeros(vsa_suckaddr_len) => ~VSA_Sane(mem, s)

\* C3 without the wrappers of getsockname / getpeername.
C3_Constructed_is_Sane_but_getname ==
    call.op # "VSA_getname" => C3_Constructed_is_Sane

\* C4: the outcomes of VSA_BuildFAP.  For an IP family a NULL or 0-length
\* address or port is left zero and is no error; a non-NULL one of another
\* length than the family's gives NULL and EINVAL; another family gives NULL
\* and EAFNOSUPPORT whatever the arguments.
C4_Outcome ==
    call.op = "VSA_BuildFAP"
    => /\ ~aborted
       /\ call.fam \notin IPFams => (call.ret = NULL /\ errno = EAFNOSUPPORT)
       /\ call.fam \in IPFams
          => IF WrongLen(call.a, addr_size(call.fam)) \/ WrongLen(call.p, sizeof_port)
             THEN call.ret = NULL /\ errno = EINVAL
             ELSE /\ call.ret = call.d
                  /\ VALID_OBJ(mem, call.d)
                  /\ sa_family(u(mem[call.d])) = call.fam
                  /\ Omitted(call.a)
                     => Deref(mem, VSA_GetPtr(mem, call.d, UnsetPtr).dst, addr_size(call.fam))
                        = Zeros(addr_size(call.fam))
                  /\ Omitted(call.p) => sin_port(mem[call.d]) = Zeros(sizeof_port)

\* ... and a call that fails leaves the storage as it was.
C4_Unchanged == (call'.op = "VSA_BuildFAP" /\ call'.ret = NULL) => mem' = mem

C4_BuildFAP_errors == [](C4_Outcome) /\ [][C4_Unchanged]_vars

C4_Witness ==
    /\ call.op = "VSA_BuildFAP"
    /\ call.fam = PF_INET
    /\ WrongLen(call.a, sizeof_in_addr)
    /\ Omitted(call.p)
    /\ call.ret = NULL
    /\ errno = EINVAL
    /\ VSA_Sane(mem, call.d)

\* C10: the length VSA_Get_Sockaddr reports with a view never exceeds the
\* size of the union the view points into.
C10_View_fits ==
    (call.op = "VSA_Get_Sockaddr" /\ ~aborted /\ call.dst # NullPtr) => call.rv <= sizeof_u

\* the family of the value in area s, and its address and port bytes
FamOf(s) == sa_family(u(mem[s]))
AddrOf(s) == IF FamOf(s) = PF_INET THEN sin_addr(mem[s]) ELSE sin6_addr(mem[s])
PortOf(s) == sin_port(mem[s])

\* C5: VSA_Compare_IP on two Sane values gives -1 when the families differ;
\* for two IPv4 or two IPv6 values it gives 0 exactly when the address bytes
\* are equal, whatever the ports: two IPv4 values with one address and two
\* ports compare equal by VSA_Compare_IP and unequal by VSA_Compare.
C5_Compare_IP ==
    (/\ call.op = "VSA_Compare_IP"
     /\ VSA_Sane(mem, call.sua)
     /\ VSA_Sane(mem, call.sua2))
    => /\ FamOf(call.sua) # FamOf(call.sua2) => (~aborted /\ call.rv = -1)
       /\ (FamOf(call.sua) = FamOf(call.sua2) /\ FamOf(call.sua) \in IPFams)
          => /\ ~aborted
             /\ call.rv = 0 <=> AddrOf(call.sua) = AddrOf(call.sua2)
             /\ (/\ FamOf(call.sua) = PF_INET
                 /\ AddrOf(call.sua) = AddrOf(call.sua2)
                 /\ PortOf(call.sua) # PortOf(call.sua2))
                => (call.rv = 0 /\ VSA_Compare(mem, call.sua, call.sua2).rv # 0)

C5_Witness ==
    /\ call.op = "VSA_Compare_IP"
    /\ VSA_Sane(mem, call.sua)
    /\ VSA_Sane(mem, call.sua2)
    /\ FamOf(call.sua) = PF_INET
    /\ FamOf(call.sua2) = PF_INET
    /\ AddrOf(call.sua) = AddrOf(call.sua2)
    /\ PortOf(call.sua) # PortOf(call.sua2)
    /\ call.rv = 0

\* C6: VSA_Clone of a Sane value returns another area, in which every byte
\* equals the source's, so VSA_Compare of the two, and of the source with
\* itself, is 0 ...
C6_Copy ==
    (call.op = "VSA_Clone" /\ ~aborted)
    => /\ call.ret # NULL
       /\ call.ret # call.sua
       /\ call.ret \in allocated
       /\ mem[call.ret] = mem[call.sua]
       /\ VSA_Compare(mem, call.sua, call.ret) = Ret(0)
       /\ VSA_Compare(mem, call.sua, call.sua) = Ret(0)

\* ... the area was not allocated before, and the source and every other
\* value are as they were.
C6_Fresh ==
    (call'.op = "VSA_Clone" /\ ~aborted')
    => /\ call'.ret \notin Values
       /\ \A s \in Values : mem'[s] = mem[s]

C6_Clone == [](C6_Copy) /\ [][C6_Fresh]_vars

C6_Witness ==
    /\ call.op = "VSA_Clone"
    /\ ~aborted
    /\ FamOf(call.sua) = PF_INET6
    /\ call.ret \in Heap
    /\ mem[call.ret] = mem[call.sua]

\* the storage as INIT_OBJ leaves it: tagged, everything else zero
Tagged_zero(v) == magic(v) = SUCKADDR_MAGIC /\ u(v) = Zeros(sizeof_u)

\* C7: a wrapper called with l other than the fixed size returns NULL with
\* EINVAL, and the system call has not been made ...
C7_Refused ==
    (call.op = "VSA_getname" /\ call.l # vsa_suckaddr_len)
    => (call.pc = "done" /\ call.ret = NULL /\ errno = EINVAL /\ call.ncalls = 0)

\* ... nor the destination written;
C7_Untouched == (call'.op = "VSA_getname" /\ call'.l # vsa_suckaddr_len) => mem' = mem

\* with l the fixed size, when the system call is made the destination is
\* zeroed and tagged and the bound passed is the size of the union;
C7_Before_syscall ==
    call.pc = "syscall"
    => /\ call.l = vsa_suckaddr_len
       /\ Tagged_zero(mem[call.d])
       /\ call.sl = sizeof_u
       /\ call.ncalls = 0

\* the system call is made once, and d is returned exactly when it succeeds.
C7_Returned ==
    (call.op = "VSA_getname" /\ call.l = vsa_suckaddr_len /\ call.pc = "done")
    => /\ call.ncalls = 1
       /\ call.ret = call.d <=> call.r = 0
       /\ call.r # 0 => call.ret = NULL

C7_getname ==
    [](C7_Refused /\ C7_Before_syscall /\ C7_Returned) /\ [][C7_Untouched]_vars

C7_Witness ==
    /\ call.op = "VSA_getname"
    /\ call.l = vsa_suckaddr_len
    /\ call.pc = "done"
    /\ call.ncalls = 1
    /\ call.r = 0
    /\ call.ret = call.d
    /\ FamOf(call.d) = PF_INET6

\* C8: VSA_GetPtr fails no assertion on a tagged value.  For NULL it returns
\* -1; for a tagged value of a family other than IPv4 and IPv6 it returns -1
\* and sets the pointer to NULL; for IPv4 / IPv6 it returns the family and
\* the pointer to the address member of the value ...
C8_Result ==
    call.op = "VSA_GetPtr"
    => /\ call.sua = NULL => (~aborted /\ call.rv = -1)
       /\ VALID_OBJ(mem, call.sua)
          => /\ ~aborted
             /\ FamOf(call.sua) \notin IPFams => (call.rv = -1 /\ call.dst = NullPtr)
             /\ FamOf(call.sua) = PF_INET
                => (call.rv = PF_INET /\ call.dst = <<call.sua, sizeof_magic + off_sin_addr>>)
             /\ FamOf(call.sua) = PF_INET6
                => (call.rv = PF_INET6 /\ call.dst = <<call.sua, sizeof_magic + off_sin6_addr>>)

\* ... and writes nothing to the storage.
C8_Reads_only == call'.op = "VSA_GetPtr" => mem' = mem

C8_GetPtr == [](C8_Result) /\ [][C8_Reads_only]_vars

C8_Witness ==
    /\ call.op = "VSA_GetPtr"
    /\ VALID_OBJ(mem, call.sua)
    /\ FamOf(call.sua) = AF_UNIX
    /\ ~aborted
    /\ call.rv = -1
    /\ call.dst = NullPtr

\* the family, address and port a call of VSA_BuildFAP asks for; an argument
\* left out counts as zero bytes
Given(x, n) == IF Omitted(x) THEN Zeros(n) ELSE x.buf
Triple(c) == <<c.fam, Given(c.a, addr_size(c.fam)), Given(c.p, sizeof_port)>>

\* C9: when VSA_BuildFAP has built a value and then builds another in other
\* storage, whatever either storage held before, VSA_Compare of the two is
\* 0 exactly when family, address and port of the two calls are equal.
C9_Step ==
    (/\ call.op = "VSA_BuildFAP"
     /\ call.ret # NULL
     /\ call'.op = "VSA_BuildFAP"
     /\ call'.ret # NULL
     /\ call'.d # call.d)
    => /\ ~VSA_Compare(mem', call.ret, call'.ret).abort
       /\ VSA_Compare(mem', call.ret, call'.ret).rv = 0 <=> Triple(call) = Triple(call')

C9_Compare_deterministic == [][C9_Step]_vars

C9_Witness ==
    /\ call.op = "VSA_BuildFAP"
    /\ call.ret # NULL
    /\ call.fam = PF_INET
    /\ \E s \in Bufs \ {call.d} : VALID_OBJ(mem, s) /\ VSA_Compare(mem, s, call.ret) = Ret(0)

====
